---- MODULE Spec2Model ----
(***************************************************************************)
(* Model of the llm-cli argument layer (binaries/llm-cli/src/cli_args.rs): *)
(* thread-count resolution, bias/EOS resolution, RNG seeding, prompt-file  *)
(* normalisation, the session load/save protocol and the model-load        *)
(* progress protocol.                                                      *)
(***************************************************************************)
EXTENDS Integers, Sequences, FiniteSets, TLC

VARIABLES
    generate,      \* the Generate arguments of this invocation
    other,         \* the Generate arguments of a second invocation (rng comparison)
    eot,           \* end-of-text token id handed to inference_parameters
    host,          \* build target and what the platform probes answer
    entropy,       \* what the OS entropy source yields, per invocation
    threads,       \* result of Generate::num_threads(), None before the call
    params,        \* result of Generate::inference_parameters(), None before
    rng_a,         \* result of generate.rng()
    rng_b,         \* result of other.rng()
    prompt_file,   \* PromptFile.prompt_file: the --prompt-file path, if any
    disk,          \* the prompt file on disk: missing, or its bytes
    prompt_pc,     \* contents(): "start", "returned" or "exited"
    prompt_out,    \* what contents() returned, None before it returns
    exit_code,     \* the process exit status once it has exited
    persist_session, \* Infer.persist_session: the --persist-session path, if any
    load_session,  \* Generate.load_session: the --load-session path, if any
    save_session,  \* Infer.save_session: the --save-session path, if any
    files,         \* session files on disk, by path
    sess_pc,       \* "start", "loaded", "generated", "done", "fatal_load", "fatal_save"
    session,       \* the session in memory: fresh, or a blob
    started_from,  \* what generation started from: fresh, or the blob loaded
    wrote_to,      \* the path the session was written to, if a write was issued
    model_load,    \* the ModelLoad arguments
    model_file,    \* the model on disk: its tensor count
    load_pc,       \* "start", "loading", "ok" or "err"
    events,        \* the LoadProgress events the handler received, in order
    log            \* the lines logged by the handler and by load()

genVars == <<generate, other, eot, host, entropy, threads, params, rng_a, rng_b>>

promptVars == <<prompt_file, disk, prompt_pc, prompt_out, exit_code>>

sessVars ==
    <<persist_session, load_session, save_session, files, sess_pc, session,
      started_from, wrote_to>>

loadVars == <<model_load, model_file, load_pc, events, log>>

vars == <<genVars, promptVars, sessVars, loadVars>>

\* ---------------------------------------------------------------- bounds

MaxThreads == 2    \* explicit --num-threads values 0..MaxThreads
MaxCores == 2      \* physical core counts 1..MaxCores
MaxOut == 4        \* length of the probe's stdout
MaxToken == 2      \* token ids 0..MaxToken
MaxBias == 1       \* bias values -MaxBias..MaxBias
MaxSeed == 1       \* seeds 0..MaxSeed
MaxEntropy == 1    \* entropy draws 0..MaxEntropy
MaxFile == 4       \* length of the prompt file in bytes
MaxPaths == 2      \* session paths 1..MaxPaths
MaxBlob == 1       \* session blobs 0..MaxBlob
MaxTensors == 16   \* tensors in a model file 0..MaxTensors

\* ------------------------------------------------------------- Option<T>

None == [some |-> FALSE]
Some(x) == [some |-> TRUE, val |-> x]
IsSome(o) == o.some
Option(S) == {None} \cup {Some(x) : x \in S}

\* Sequences over S of length at most n.
SeqUpTo(S, n) == UNION {[1..k -> S] : k \in 0..n}

\* ----------------------------------------------------- Generate defaults

DefaultBatchSize == 8
DefaultTopK == 40
\* f32 knobs in hundredths
DefaultRepeatPenalty == 130
DefaultTemperature == 80
DefaultTopP == 95

\* f32 bias written by --ignore-eos, in units of 1.0
EosBias == -1

\* The fields of Generate that inference_parameters, num_threads and rng read,
\* with clap's defaults for the fields the command line leaves out.
DefaultGenerate ==
    [num_threads |-> None,
     batch_size |-> DefaultBatchSize,
     repeat_penalty |-> DefaultRepeatPenalty,
     temperature |-> DefaultTemperature,
     top_k |-> DefaultTopK,
     top_p |-> DefaultTopP,
     seed |-> None,
     float16 |-> FALSE,
     token_bias |-> None,
     ignore_eos |-> FALSE]

\* ------------------------------------------------------------- TokenBias

TokenIds == 0..MaxToken
Biases == (-MaxBias)..MaxBias

\* A TokenBias is a table from token id to bias: a function on a set of ids.
TokenBiasTables == UNION {[D -> Biases] : D \in SUBSET TokenIds}

TokenBiasDefault == [t \in {} |-> 0]

\* TokenBias::new(vec): the table of the given (id, bias) pairs; of two pairs
\* with one id the later one stands.
TokenBiasNew(pairs) ==
    [t \in {pairs[i][1] : i \in DOMAIN pairs} |->
        LET last == CHOOSE i \in DOMAIN pairs :
                        /\ pairs[i][1] = t
                        /\ \A j \in DOMAIN pairs : pairs[j][1] = t => j <= i
        IN  pairs[last][2]]

\* ---------------------------------------------------------- thread count

\* A text is a sequence of characters, each its Unicode code point.
\* The characters the probe's stdout is drawn from: "0", "2", "+", "x", "\n",
\* form feed (U+000C) and no-break space (U+00A0).
OutChars == {48, 50, 43, 120, 10, 12, 160}

\* char::is_whitespace: the Unicode White_Space characters, which str::trim
\* strips.
Whitespace ==
    (9..13) \cup {32, 133, 160, 5760} \cup (8192..8202)
        \cup {8232, 8233, 8239, 8287, 12288}

\* '+' and the decimal digits '0'..'9' with their values.
PlusSign == {43}
DigitVal == [c \in 48..57 |-> c - 48]

RECURSIVE TrimStart(_)
TrimStart(s) ==
    IF s # <<>> /\ Head(s) \in Whitespace THEN TrimStart(Tail(s)) ELSE s

RECURSIVE TrimEnd(_)
TrimEnd(s) ==
    IF s # <<>> /\ s[Len(s)] \in Whitespace
    THEN TrimEnd(SubSeq(s, 1, Len(s) - 1))
    ELSE s

\* str::trim
Trim(s) == TrimEnd(TrimStart(s))

RECURSIVE DigitsValue(_)
DigitsValue(s) ==
    IF s = <<>> THEN 0
    ELSE 10 * DigitsValue(SubSeq(s, 1, Len(s) - 1)) + DigitVal[s[Len(s)]]

\* str::parse::<usize>: an optional '+', then at least one digit and nothing
\* else.  (Overflow of usize needs 20 digits, beyond MaxOut.)
ParseUsize(s) ==
    LET digits == IF s # <<>> /\ Head(s) \in PlusSign THEN Tail(s) ELSE s
    IN  IF digits # <<>> /\ \A i \in DOMAIN digits : digits[i] \in DOMAIN DigitVal
        THEN Some(DigitsValue(digits))
        ELSE None

\* What running `sysctl -n hw.perflevel0.physicalcpu` gives: the command could
\* not be run, its stdout is not UTF-8, or its stdout is a text.
ProbeOutcomes ==
    {[kind |-> "spawn_failed"], [kind |-> "not_utf8"]}
        \cup {[kind |-> "stdout", text |-> s] : s \in SeqUpTo(OutChars, MaxOut)}

\* Command::output().ok().and_then(|o| String::from_utf8(o.stdout).ok()?.trim().parse().ok())
PerfCoreProbe(h) ==
    IF h.probe.kind = "stdout" THEN ParseUsize(Trim(h.probe.text)) ELSE None

Hosts ==
    [macos_aarch64 : BOOLEAN, probe : ProbeOutcomes, physical : 1..MaxCores]

\* A slip: the probe's answer is dropped and the physical count always used.
autodetect_num_threads_PhysicalOnly(h) == h.physical

\* Generate::autodetect_num_threads, both cfg variants.
autodetect_num_threads(h) ==
    IF h.macos_aarch64
    THEN IF IsSome(PerfCoreProbe(h)) THEN PerfCoreProbe(h).val ELSE h.physical
    ELSE h.physical

\* Generate::num_threads
num_threads(g, h) ==
    IF IsSome(g.num_threads) THEN g.num_threads.val ELSE autodetect_num_threads(h)

\* -------------------------------------------------- inference parameters

\* A slip: --ignore-eos is looked at before --token-bias.
inference_parameters_EosFirst(g, h, e) ==
    [n_threads |-> num_threads(g, h),
     n_batch |-> g.batch_size,
     top_k |-> g.top_k,
     top_p |-> g.top_p,
     repeat_penalty |-> g.repeat_penalty,
     temperature |-> g.temperature,
     bias_tokens |->
        IF g.ignore_eos THEN TokenBiasNew(<< <<e, EosBias>> >>)
        ELSE IF IsSome(g.token_bias) THEN g.token_bias.val
        ELSE TokenBiasDefault]

\* A slip: the end-of-text id is a fixed number, not the one passed in.
inference_parameters_FixedEot(g, h, e) ==
    [n_threads |-> num_threads(g, h),
     n_batch |-> g.batch_size,
     top_k |-> g.top_k,
     top_p |-> g.top_p,
     repeat_penalty |-> g.repeat_penalty,
     temperature |-> g.temperature,
     bias_tokens |->
        IF IsSome(g.token_bias) THEN g.token_bias.val
        ELSE IF g.ignore_eos THEN TokenBiasNew(<< <<2, EosBias>> >>)
        ELSE TokenBiasDefault]

\* Generate::inference_parameters
inference_parameters(g, h, e) ==
    [n_threads |-> num_threads(g, h),
     n_batch |-> g.batch_size,
     top_k |-> g.top_k,
     top_p |-> g.top_p,
     repeat_penalty |-> g.repeat_penalty,
     temperature |-> g.temperature,
     bias_tokens |->
        IF IsSome(g.token_bias) THEN g.token_bias.val
        ELSE IF g.ignore_eos THEN TokenBiasNew(<< <<e, EosBias>> >>)
        ELSE TokenBiasDefault]

\* ------------------------------------------------------------------- rng

\* StdRng::seed_from_u64(seed): a state fixed by the seed alone.
SeedFromU64(seed) == [source |-> "seed_from_u64", state |-> seed]

\* StdRng::from_entropy(): a state fixed by what the entropy source yields.
FromEntropy(e) == [source |-> "from_entropy", state |-> e]

\* A slip: seed 0 is taken to mean "no seed".
rng_ZeroSeedIsRandom(g, e) ==
    IF IsSome(g.seed) /\ g.seed.val # 0
    THEN SeedFromU64(g.seed.val)
    ELSE FromEntropy(e)

\* Generate::rng
rng(g, e) == IF IsSome(g.seed) THEN SeedFromU64(g.seed.val) ELSE FromEntropy(e)

\* ------------------------------------------------------- quiescent parts

DefaultHost ==
    [macos_aarch64 |-> FALSE, probe |-> [kind |-> "spawn_failed"], physical |-> 1]

RngIdle ==
    /\ other = DefaultGenerate
    /\ entropy = <<0, 0>>
    /\ rng_a = None
    /\ rng_b = None

PromptIdle ==
    /\ prompt_file = None
    /\ disk = [kind |-> "missing"]
    /\ prompt_pc = "start"
    /\ prompt_out = None
    /\ exit_code = None

DefaultNumCtxTokens == 2048

SessIdle ==
    /\ persist_session = None
    /\ load_session = None
    /\ save_session = None
    /\ files = [p \in 1..MaxPaths |-> [kind |-> "missing"]]
    /\ sess_pc = "start"
    /\ session = [kind |-> "fresh"]
    /\ started_from = None
    /\ wrote_to = None

LoadIdle ==
    /\ model_load = [no_mmap |-> FALSE, num_ctx_tokens |-> DefaultNumCtxTokens]
    /\ model_file = [tensors |-> 0]
    /\ load_pc = "start"
    /\ events = <<>>
    /\ log = <<>>

\* ------------------------------------------------------- thread resolver

InitThreads ==
    /\ generate \in {[DefaultGenerate EXCEPT !.num_threads = n] :
                        n \in Option(0..MaxThreads)}
    /\ host \in Hosts
    /\ eot = 0
    /\ threads = None
    /\ params = None
    /\ RngIdle
    /\ PromptIdle
    /\ SessIdle
    /\ LoadIdle

CallNumThreads ==
    /\ threads = None
    /\ threads' = Some(num_threads(generate, host))
    /\ UNCHANGED <<generate, other, eot, host, entropy, params, rng_a, rng_b>>
    /\ UNCHANGED <<promptVars, sessVars, loadVars>>

CallInferenceParameters ==
    /\ params = None
    /\ params' = Some(inference_parameters(generate, host, eot))
    /\ UNCHANGED <<generate, other, eot, host, entropy, threads, rng_a, rng_b>>
    /\ UNCHANGED <<promptVars, sessVars, loadVars>>

NextThreads == CallNumThreads \/ CallInferenceParameters

SpecThreads == InitThreads /\ [][NextThreads]_vars

\* C3: num_threads() and the n_threads field of inference_parameters() are
\* never zero, whatever --num-threads and the platform probes give.
C3_ThreadCountPositive ==
    /\ IsSome(threads) => threads.val > 0
    /\ IsSome(params) => params.val.n_threads > 0

\* The number a probe text stands for, stated on the text itself: blanks, an
\* optional '+', one or more digits, blanks.
IsDigits(s) == s # <<>> /\ \A i \in DOMAIN s : s[i] \in DOMAIN DigitVal
IsBlank(s) == \A i \in DOMAIN s : s[i] \in Whitespace
ProbeNumbers(h) ==
    IF h.macos_aarch64 /\ h.probe.kind = "stdout"
    THEN LET t == h.probe.text
         IN  {DigitsValue(SubSeq(t, i, j)) : <<i, j>> \in
                {<<a, b>> \in (1..Len(t)) \X (1..Len(t)) :
                    /\ a <= b
                    /\ IsDigits(SubSeq(t, a, b))
                    /\ \/ IsBlank(SubSeq(t, 1, a - 1))
                       \/ a > 1 /\ t[a - 1] \in PlusSign /\ IsBlank(SubSeq(t, 1, a - 2))
                    /\ IsBlank(SubSeq(t, b + 1, Len(t)))}}
    ELSE {}

\* C4: an explicit thread count is returned as given, whatever the probes
\* say; without one the result is the performance-core probe's number when the
\* probe ran and printed a number, and the physical core count otherwise.
C4_ThreadCountSource ==
    IsSome(threads) =>
        IF IsSome(generate.num_threads)
        THEN threads.val = generate.num_threads.val
        ELSE IF ProbeNumbers(host) # {}
        THEN threads.val \in ProbeNumbers(host)
        ELSE threads.val = host.physical

C4_Witness ==
    /\ generate.num_threads = None
    /\ host.macos_aarch64
    /\ host.probe = [kind |-> "stdout", text |-> <<160, 50, 12, 10>>]
    /\ host.physical = 1
    /\ threads = Some(2)

\* ------------------------------------------------------- bias resolution

InitBias ==
    /\ generate \in {[DefaultGenerate EXCEPT !.token_bias = tb, !.ignore_eos = ie,
                                             !.num_threads = n] :
                        tb \in Option(TokenBiasTables), ie \in BOOLEAN,
                        n \in {None, Some(1)}}
    /\ host = DefaultHost
    /\ eot \in TokenIds
    /\ threads = None
    /\ params = None
    /\ RngIdle
    /\ PromptIdle
    /\ SessIdle
    /\ LoadIdle

NextBias == CallInferenceParameters

SpecBias == InitBias /\ [][NextBias]_vars

\* C1: with an explicit --token-bias table the resolved bias table is that
\* table, and the resolved parameters are the same with --ignore-eos set and
\* unset.
C1_ExplicitBiasVerbatim ==
    (IsSome(params) /\ IsSome(generate.token_bias)) =>
        /\ params.val.bias_tokens = generate.token_bias.val
        /\ params.val =
             inference_parameters([generate EXCEPT !.ignore_eos = ~@], host, eot)

C1_Witness ==
    /\ IsSome(params)
    /\ generate.ignore_eos
    /\ IsSome(generate.token_bias)
    /\ eot \notin DOMAIN generate.token_bias.val
    /\ generate.token_bias.val # TokenBiasDefault

\* C2: without --token-bias the resolved table is the single entry
\* (eot, -1.0) when --ignore-eos is set and empty when it is not; in every
\* case exactly one of the three policies gives the table.
C2_EosBiasOrEmpty ==
    IsSome(params) =>
        LET bias == params.val.bias_tokens
            policies ==
                {p \in {"explicit", "eos", "empty"} :
                    \/ p = "explicit" /\ IsSome(generate.token_bias)
                                      /\ bias = generate.token_bias.val
                    \/ p = "eos" /\ ~IsSome(generate.token_bias)
                                 /\ generate.ignore_eos
                                 /\ DOMAIN bias = {eot} /\ bias[eot] = -1
                    \/ p = "empty" /\ ~IsSome(generate.token_bias)
                                   /\ ~generate.ignore_eos
                                   /\ DOMAIN bias = {}}
        IN  Cardinality(policies) = 1

C2_Witness ==
    /\ IsSome(params)
    /\ generate.token_bias = None
    /\ generate.ignore_eos
    /\ eot = 1
    /\ params.val.bias_tokens = [t \in {1} |-> -1]

\* ------------------------------------------------------------------ seed

RngGenerates ==
    {[DefaultGenerate EXCEPT !.seed = sd, !.num_threads = n, !.ignore_eos = ie] :
        sd \in Option(0..MaxSeed), n \in {None, Some(1)}, ie \in BOOLEAN}

InitRng ==
    /\ generate \in RngGenerates
    /\ other \in RngGenerates
    /\ entropy \in (0..MaxEntropy) \X (0..MaxEntropy)
    /\ host = DefaultHost
    /\ eot = 0
    /\ threads = None
    /\ params = None
    /\ rng_a = None
    /\ rng_b = None
    /\ PromptIdle
    /\ SessIdle
    /\ LoadIdle

CallRngA ==
    /\ rng_a = None
    /\ rng_a' = Some(rng(generate, entropy[1]))
    /\ UNCHANGED <<generate, other, eot, host, entropy, threads, params, rng_b>>
    /\ UNCHANGED <<promptVars, sessVars, loadVars>>

CallRngB ==
    /\ rng_b = None
    /\ rng_b' = Some(rng(other, entropy[2]))
    /\ UNCHANGED <<generate, other, eot, host, entropy, threads, params, rng_a>>
    /\ UNCHANGED <<promptVars, sessVars, loadVars>>

NextRng == CallRngA \/ CallRngB

SpecRng == InitRng /\ [][NextRng]_vars

\* C10: two Generate values with the same Some(seed) give the same RNG
\* state whatever their other fields; with no seed the state comes from the
\* entropy source and is fixed by what that source yields alone.
C10_SeedDeterminism ==
    (IsSome(rng_a) /\ IsSome(rng_b)) =>
        /\ (IsSome(generate.seed) /\ generate.seed = other.seed) =>
                /\ rng_a = rng_b
                /\ rng_a.val.source = "seed_from_u64"
        /\ ~IsSome(generate.seed) => rng_a.val.source = "from_entropy"
        /\ ~IsSome(other.seed) => rng_b.val.source = "from_entropy"
        /\ (~IsSome(generate.seed) /\ ~IsSome(other.seed)
                /\ entropy[1] = entropy[2]) => rng_a = rng_b

C10_Witness ==
    /\ IsSome(rng_a) /\ IsSome(rng_b)
    /\ generate.seed = Some(0) /\ other.seed = Some(0)
    /\ generate.num_threads # other.num_threads
    /\ generate.ignore_eos # other.ignore_eos
    /\ entropy[1] # entropy[2]

\* ----------------------------------------------------------- prompt file

LF == 10
CR == 13

\* Bytes a prompt file is made of: "\n", "\r", "h", and the two bytes of "é".
FileBytes == {LF, CR, 104, 195, 169}

IsAscii(b) == b < 128
IsLead2(b) == b >= 194 /\ b <= 223
IsContinuation(b) == b >= 128 /\ b <= 191

\* Whether a byte sequence is UTF-8 (characters of one or two bytes).
ValidUtf8(bytes) ==
    \A i \in DOMAIN bytes :
        \/ IsAscii(bytes[i])
        \/ /\ IsLead2(bytes[i])
           /\ i < Len(bytes) /\ IsContinuation(bytes[i + 1])
        \/ /\ IsContinuation(bytes[i])
           /\ i > 1 /\ IsLead2(bytes[i - 1])

\* std::fs::read_to_string: Err when the file cannot be opened or is not UTF-8.
ReadToString(d) ==
    IF d.kind = "file" /\ ValidUtf8(d.bytes)
    THEN [ok |-> TRUE, val |-> d.bytes]
    ELSE [ok |-> FALSE]

\* prompt.as_bytes().last()
LastByte(str) == IF str = <<>> THEN None ELSE Some(str[Len(str)])

\* String::pop: drops the last character, all of its bytes.
Pop(str) ==
    IF str = <<>> THEN str
    ELSE IF IsAscii(str[Len(str)]) THEN SubSeq(str, 1, Len(str) - 1)
    ELSE SubSeq(str, 1, Len(str) - 2)

\* A plausible slip: every trailing "\n" and "\r" goes, not one of each.
RECURSIVE StripAllTerminators(_)
StripAllTerminators(prompt) ==
    IF LastByte(prompt) \in {Some(LF), Some(CR)}
    THEN StripAllTerminators(Pop(prompt))
    ELSE prompt

\* The two `if matches!(... .last(), ...) { prompt.pop(); }` of contents().
StripTerminator(prompt) ==
    LET p1 == IF LastByte(prompt) = Some(LF) THEN Pop(prompt) ELSE prompt
    IN  IF LastByte(p1) = Some(CR) THEN Pop(p1) ELSE p1

Disks ==
    {[kind |-> "missing"]}
        \cup {[kind |-> "file", bytes |-> b] : b \in SeqUpTo(FileBytes, MaxFile)}

GenIdle ==
    /\ generate = DefaultGenerate
    /\ host = DefaultHost
    /\ eot = 0
    /\ threads = None
    /\ params = None
    /\ RngIdle

InitPrompt ==
    /\ prompt_file \in {None, Some("prompt.txt")}
    /\ disk \in Disks
    /\ prompt_pc = "start"
    /\ prompt_out = None
    /\ exit_code = None
    /\ GenIdle
    /\ SessIdle
    /\ LoadIdle

\* PromptFile::contents
contents ==
    /\ prompt_pc = "start"
    /\ \/ /\ prompt_file = None
          /\ prompt_out' = Some(None)
          /\ prompt_pc' = "returned"
          /\ UNCHANGED exit_code
       \/ /\ IsSome(prompt_file)
          /\ ReadToString(disk).ok
          /\ prompt_out' = Some(Some(StripTerminator(ReadToString(disk).val)))
          /\ prompt_pc' = "returned"
          /\ UNCHANGED exit_code
       \/ /\ IsSome(prompt_file)
          /\ ~ReadToString(disk).ok
          /\ exit_code' = Some(1)
          /\ prompt_pc' = "exited"
          /\ UNCHANGED prompt_out
    /\ UNCHANGED <<prompt_file, disk>>
    /\ UNCHANGED <<genVars, sessVars, loadVars>>

NextPrompt == contents

SpecPrompt == InitPrompt /\ [][NextPrompt]_vars

\* The file's text and the prompt returned for it, once contents() returned
\* a prompt.
PromptReturned == prompt_pc = "returned" /\ IsSome(prompt_file)
FileText == disk.bytes
Prompt == prompt_out.val.val
EndsWith(str, suffix) ==
    /\ Len(str) >= Len(suffix)
    /\ SubSeq(str, Len(str) - Len(suffix) + 1, Len(str)) = suffix

\* C5: the prompt is the file's text less at most one trailing "\n" and at
\* most one trailing "\r" before it; a text ending in "\n\n" keeps its first
\* "\n", a text ending in "\r\n" loses both bytes.
C5_AtMostOneTerminator ==
    PromptReturned =>
        /\ \E suffix \in {<<>>, <<LF>>, <<CR>>, <<CR, LF>>} :
                FileText = Prompt \o suffix
        /\ EndsWith(FileText, <<LF, LF>>) =>
                Prompt = SubSeq(FileText, 1, Len(FileText) - 1)
        /\ EndsWith(FileText, <<CR, LF>>) =>
                Prompt = SubSeq(FileText, 1, Len(FileText) - 2)

C5_Witness ==
    /\ PromptReturned
    /\ FileText = <<104, LF, LF>>
    /\ Prompt = <<104, LF>>

\* C6: a trailing "\r" goes only together with a trailing "\n": a file that
\* does not end in "\n" is returned unchanged.
C6_CrOnlyWithLf ==
    (PromptReturned /\ ~EndsWith(FileText, <<LF>>)) => Prompt = FileText

\* C7: an unreadable prompt file comes back to the caller as an error value:
\* contents() returns, with something other than "no prompt", and the process
\* has not exited.
C7_ReadFailureReturned ==
    (prompt_pc # "start" /\ IsSome(prompt_file) /\ ~ReadToString(disk).ok) =>
        /\ prompt_pc = "returned"
        /\ prompt_out # Some(None)
        /\ exit_code = None

\* ------------------------------------------------------ session protocol

Paths == 1..MaxPaths
Fresh == [kind |-> "fresh"]
Blob(b) == [kind |-> "blob", blob |-> b]
FileStates ==
    {[kind |-> "missing"], [kind |-> "corrupt"], [kind |-> "unreadable"]}
        \cup {Blob(b) : b \in 0..MaxBlob}

\* The session state the three path arguments stand for.
SessionState ==
    IF IsSome(persist_session)
    THEN [tag |-> "PersistBoth", load |-> persist_session, save |-> persist_session]
    ELSE [tag |-> IF IsSome(load_session) /\ IsSome(save_session) THEN "LoadSave"
                  ELSE IF IsSome(load_session) THEN "LoadOnly"
                  ELSE IF IsSome(save_session) THEN "SaveOnly"
                  ELSE "NoSession",
          load |-> load_session,
          save |-> save_session]

\* A slip: every failed read counts as "no file there".
ReadSessionAnyErrorAbsent(f) ==
    IF f.kind = "blob" THEN [ok |-> TRUE, blob |-> f.blob]
    ELSE [ok |-> FALSE, err |-> "NotFound"]

\* Reading a session blob from a path.
ReadSession(f) ==
    IF f.kind = "blob" THEN [ok |-> TRUE, blob |-> f.blob]
    ELSE IF f.kind = "missing" THEN [ok |-> FALSE, err |-> "NotFound"]
    ELSE IF f.kind = "unreadable" THEN [ok |-> FALSE, err |-> "Io"]
    ELSE [ok |-> FALSE, err |-> "Format"]

\* The one tolerated failure: the file is missing and the state is PersistBoth.
Tolerated(st, r) == st.tag = "PersistBoth" /\ ~r.ok /\ r.err = "NotFound"

InitSession ==
    /\ \/ /\ persist_session \in {Some(p) : p \in Paths}
          /\ load_session = None
          /\ save_session = None
       \/ /\ persist_session = None
          /\ load_session \in Option(Paths)
          /\ save_session \in Option(Paths)
    /\ files \in [Paths -> FileStates]
    /\ sess_pc = "start"
    /\ session = Fresh
    /\ started_from = None
    /\ wrote_to = None
    /\ GenIdle
    /\ PromptIdle
    /\ LoadIdle

\* On entry: read the session from the load path, if the state has one.
LoadSession ==
    /\ sess_pc = "start"
    /\ LET st == SessionState
           r == ReadSession(files[st.load.val])
       IN  \/ /\ ~IsSome(st.load)
              /\ started_from' = Some(Fresh)
              /\ sess_pc' = "loaded"
              /\ UNCHANGED session
           \/ /\ IsSome(st.load)
              /\ r.ok
              /\ session' = Blob(r.blob)
              /\ started_from' = Some(Blob(r.blob))
              /\ sess_pc' = "loaded"
           \/ /\ IsSome(st.load)
              /\ Tolerated(st, r)
              /\ started_from' = Some(Fresh)
              /\ sess_pc' = "loaded"
              /\ UNCHANGED session
           \/ /\ IsSome(st.load)
              /\ ~r.ok
              /\ ~Tolerated(st, r)
              /\ sess_pc' = "fatal_load"
              /\ UNCHANGED <<session, started_from>>
    /\ UNCHANGED <<persist_session, load_session, save_session, files, wrote_to>>
    /\ UNCHANGED <<genVars, promptVars, loadVars>>

\* Generation: the engine leaves a session blob of its own making.
RunGeneration ==
    /\ sess_pc = "loaded"
    /\ \E b \in 0..MaxBlob : session' = Blob(b)
    /\ sess_pc' = "generated"
    /\ UNCHANGED <<persist_session, load_session, save_session, files,
                   started_from, wrote_to>>
    /\ UNCHANGED <<genVars, promptVars, loadVars>>

\* On completion: write the session to the save path, if the state has one;
\* the write may fail.
SaveSession ==
    /\ sess_pc = "generated"
    /\ LET st == SessionState
       IN  \/ /\ ~IsSome(st.save)
              /\ sess_pc' = "done"
              /\ UNCHANGED <<files, wrote_to>>
           \/ /\ IsSome(st.save)
              /\ files' = [files EXCEPT ![st.save.val] = session]
              /\ wrote_to' = st.save
              /\ sess_pc' = "done"
           \/ /\ IsSome(st.save)
              /\ wrote_to' = st.save
              /\ sess_pc' = "fatal_save"
              /\ UNCHANGED files
    /\ UNCHANGED <<persist_session, load_session, save_session, session,
                   started_from>>
    /\ UNCHANGED <<genVars, promptVars, loadVars>>

NextSession == LoadSession \/ RunGeneration \/ SaveSession

SpecSession == InitSession /\ [][NextSession]_vars

\* C8: with --persist-session a missing file gives a fresh session and no
\* error, any other failure to read the file is fatal; with --load-session a
\* missing file is fatal; and when generation completes under
\* --persist-session the session is written to that same path.
C8_PersistSession ==
    LET loadFile == files[SessionState.load.val]
    IN  /\ (IsSome(persist_session) /\ sess_pc \notin {"start", "done"}) =>
            /\ loadFile.kind = "missing" =>
                    sess_pc # "fatal_load" /\ started_from = Some(Fresh)
            /\ loadFile.kind \in {"corrupt", "unreadable"} =>
                    sess_pc = "fatal_load" /\ started_from = None
        /\ (~IsSome(persist_session) /\ IsSome(load_session)
                /\ sess_pc \notin {"start", "done"}
                /\ loadFile.kind = "missing") => sess_pc = "fatal_load"
        /\ (IsSome(persist_session) /\ sess_pc \in {"done", "fatal_save"}) =>
                wrote_to = persist_session
        /\ (IsSome(persist_session) /\ sess_pc = "done") =>
                files[persist_session.val] = session

C8_Witness ==
    /\ persist_session = Some(1)
    /\ sess_pc = "done"
    /\ started_from = Some(Fresh)
    /\ files[1] = session
    /\ wrote_to = Some(1)

\* ------------------------------------------------------------ model load

LoadProgressHyperparametersLoaded == [kind |-> "HyperparametersLoaded"]
LoadProgressContextSize == [kind |-> "ContextSize"]
LoadProgressTensorLoaded(i, n) ==
    [kind |-> "TensorLoaded", current_tensor |-> i, tensor_count |-> n]
LoadProgressLoaded(n) == [kind |-> "Loaded", tensor_count |-> n]

LogEvery == 8

\* load_progress_handler_log: the lines logged for one event.  (The byte
\* counts of ContextSize and Loaded only go into the text of the line.)
load_progress_handler_log(progress) ==
    CASE progress.kind = "HyperparametersLoaded" ->
            << [level |-> "debug", msg |-> "Loaded hyperparameters"] >>
      [] progress.kind = "ContextSize" ->
            << [level |-> "info", msg |-> "ggml ctx size"] >>
      [] progress.kind = "TensorLoaded" ->
            LET current_tensor == progress.current_tensor + 1
            IN  IF current_tensor % LogEvery = 0
                THEN << [level |-> "info", msg |-> "Loaded tensor",
                         current |-> current_tensor,
                         count |-> progress.tensor_count] >>
                ELSE << >>
      [] progress.kind = "Loaded" ->
            << [level |-> "info", msg |-> "Loading of model complete"],
               [level |-> "info", msg |-> "Model size / num tensors",
                count |-> progress.tensor_count] >>

\* A slip: tensors counted from 1.
NextProgressOneBased(n, k) ==
    IF k = 0 THEN LoadProgressHyperparametersLoaded
    ELSE IF k = 1 THEN LoadProgressContextSize
    ELSE IF k < n + 2 THEN LoadProgressTensorLoaded(k - 1, n)
    ELSE LoadProgressLoaded(n)

\* The loader's event after k events, for a model of n tensors.
NextProgress(n, k) ==
    IF k = 0 THEN LoadProgressHyperparametersLoaded
    ELSE IF k = 1 THEN LoadProgressContextSize
    ELSE IF k < n + 2 THEN LoadProgressTensorLoaded(k - 2, n)
    ELSE LoadProgressLoaded(n)

InitLoad ==
    /\ model_load \in [no_mmap : BOOLEAN, num_ctx_tokens : {DefaultNumCtxTokens}]
    /\ model_file \in [tensors : 0..MaxTensors]
    /\ load_pc = "start"
    /\ events = <<>>
    /\ log = <<>>
    /\ GenIdle
    /\ PromptIdle
    /\ SessIdle

\* ModelLoad::load enters llm::load with the handler.
CallLoad ==
    /\ load_pc = "start"
    /\ load_pc' = "loading"
    /\ UNCHANGED <<model_load, model_file, events, log>>
    /\ UNCHANGED <<genVars, promptVars, sessVars>>

\* The loader hands its next event to the handler.
LoaderProgress ==
    /\ load_pc = "loading"
    /\ Len(events) < model_file.tensors + 3
    /\ LET progress == NextProgress(model_file.tensors, Len(events))
       IN  /\ events' = Append(events, progress)
           /\ log' = log \o load_progress_handler_log(progress)
    /\ UNCHANGED <<model_load, model_file, load_pc>>
    /\ UNCHANGED <<genVars, promptVars, sessVars>>

\* The loader returns an error, at any point of the load: load() returns
\* "Could not load model".
LoaderFails ==
    /\ load_pc = "loading"
    /\ load_pc' = "err"
    /\ UNCHANGED <<model_load, model_file, events, log>>
    /\ UNCHANGED <<genVars, promptVars, sessVars>>

\* The loader is done: load() logs and returns the model.
LoadReturns ==
    /\ load_pc = "loading"
    /\ Len(events) = model_file.tensors + 3
    /\ log' = Append(log, [level |-> "info", msg |-> "Model fully loaded!"])
    /\ load_pc' = "ok"
    /\ UNCHANGED <<model_load, model_file, events>>
    /\ UNCHANGED <<genVars, promptVars, sessVars>>

NextLoad == CallLoad \/ LoaderProgress \/ LoaderFails \/ LoadReturns

SpecLoad == InitLoad /\ [][NextLoad]_vars

ExpectedEvents(n) ==
    << [kind |-> "HyperparametersLoaded"], [kind |-> "ContextSize"] >>
        \o [i \in 1..n |->
                [kind |-> "TensorLoaded", current_tensor |-> i - 1, tensor_count |-> n]]
        \o << [kind |-> "Loaded", tensor_count |-> n] >>

\* C9: a successful load has handed the handler one HyperparametersLoaded,
\* one ContextSize, TensorLoaded events with indices 0 to total-1 in order,
\* and one final Loaded with that total; at every moment the events so far
\* are a start of that sequence, and nothing follows Loaded.
C9_ProgressOrder ==
    LET expected == ExpectedEvents(model_file.tensors)
    IN  /\ Len(events) <= Len(expected)
        /\ \A i \in DOMAIN events : events[i] = expected[i]
        /\ \A i \in DOMAIN events : events[i].kind = "Loaded" => i = Len(events)
        /\ load_pc = "ok" => events = expected

C9_Witness ==
    /\ load_pc = "ok"
    /\ model_file.tensors = 3
    /\ Len(events) = 6
    /\ events[3].kind = "TensorLoaded"
    /\ events[6].kind = "Loaded"

====
